---- MODULE Spec2Model ----
(***************************************************************************)
(* Browser session manager of priv/python/web_automation.py: the           *)
(* WebAutomator class (start_browser, save_session, load_session,          *)
(* navigate, search, close) and the script's main().                       *)
(*                                                                         *)
(* The Playwright objects (driver, browser, context, page) are resources   *)
(* kept in the sequence res; a WebAutomator's fields hold indexes into it  *)
(* (0 is Python's None).  The sessions directory is the pair files/shots.  *)
(* Every operation is a function from a world record (the program state)   *)
(* and the outcome of each library call to the world it leaves behind, so  *)
(* that main(), which calls several operations, is one action.             *)
(***************************************************************************)
EXTENDS Integers, Sequences, FiniteSets, TLC

\* ---------------------------------------------------------------- bounds
MaxCalls == 5        \* constructions and operations in one run of the model
MaxCookies == 2      \* cookies in one storage state
MaxFaults == 1       \* library calls that fail for an outside reason, in one run
MaxMarked == 2       \* selectors of one search whose probe is not a plain miss

None == 0
\* uuid4() of the a-th automator is modelled by a itself: distinct per object
Tokens == 1..(MaxCalls + 1)

Min(x, y) == IF x < y THEN x ELSE y

\* ------------------------------------------------------- storage state
Cookies == {"ck"}
StorageStates == UNION {[1..n -> Cookies] : n \in 0..MaxCookies}
EmptyState == <<>>
NoFile == <<"absent">>

RECURSIVE Joined(_)
Joined(S) ==
    IF Len(S) = 0 THEN <<>>
    ELSE IF Len(S) = 1 THEN <<S[1]>>
    ELSE <<S[1], ",">> \o Joined(Tail(S))

json_dump_short(S) == <<"[">> \o Joined(SubSeq(S, 1, Len(S) - 1)) \o <<"]">>

\* json.dump(storage_state, f): the document written for a storage state
json_dump(S) == <<"[">> \o Joined(S) \o <<"]">>

Inner(doc) == SubSeq(doc, 2, Len(doc) - 1)

\* the documents json.load accepts
WellFormed(doc) ==
    /\ Len(doc) >= 2
    /\ doc[1] = "["
    /\ doc[Len(doc)] = "]"
    /\ LET inner == Inner(doc)
       IN \/ Len(inner) = 0
          \/ /\ Len(inner) % 2 = 1
             /\ \A i \in 1..Len(inner) :
                   IF i % 2 = 1 THEN inner[i] \in Cookies ELSE inner[i] = ","

\* json.load(f): the value read back from a well-formed document
json_load(doc) ==
    LET inner == Inner(doc)
    IN [i \in 1..((Len(inner) + 1) \div 2) |-> inner[2 * i - 1]]

\* ------------------------------------------------- outcomes of library calls
\* the calls that can fail for a reason outside the program
StartSites == {"start:driver", "start:launch", "start:context", "start:page"}
SaveSites == {"save:state", "save:open", "save:dump"}
LoadSites == {"load:close", "load:read", "load:context", "load:page"}
NavSites == {"nav:goto", "nav:idle", "nav:content", "nav:screenshot", "nav:read"}
SearchSites == {"search:click", "search:fill", "search:type", "search:press",
                "search:idle", "search:content", "search:screenshot", "search:read"}
CloseSites == {"close:context", "close:browser", "close:driver"}

RECURSIVE FaultSets(_, _)
FaultSets(sites, k) ==
    IF k <= 0 THEN {{}}
    ELSE LET P == FaultSets(sites, k - 1)
         IN P \cup {S \cup {s} : S \in P, s \in sites}

\* search_input_selectors
Selectors ==
    <<"input[type='search']", "input[name='q']", "input[name='query']",
      "input[name='search']", "input.search", "#search-input", ".search-input">>

Misses == [i \in 1..Len(Selectors) |-> "none"]
ProbeOutcomes == {"none", "elem", "raise"}

RECURSIVE MarkedVectors(_)
MarkedVectors(k) ==
    IF k <= 0 THEN {Misses}
    ELSE LET P == MarkedVectors(k - 1)
         IN P \cup {[v EXCEPT ![i] = o] : v \in P, i \in 1..Len(Selectors),
                                          o \in {"elem", "raise"}}

\* what the outside world does during one operation
Env(F, state, console, cut, outcomes) ==
    [faults |-> F, state |-> state, console |-> console, cut |-> cut,
     outcomes |-> outcomes]

\* ------------------------------------------------------------ resources
NewRes(kind, parent, state, listen) ==
    [kind |-> kind, parent |-> parent, open |-> TRUE,
     state |-> state, listen |-> listen, loaded |-> FALSE]

\* a Playwright object is usable while it and everything it lives in is open
RECURSIVE Alive(_, _)
Alive(R, r) ==
    /\ r # None
    /\ R[r].open
    /\ (R[r].parent = None \/ Alive(R, R[r].parent))

\* ------------------------------------------------------------- results
NoRet == [success |-> FALSE, keys |-> {}, session_id |-> None, error |-> ""]

NoLast ==
    [op |-> "init", a |-> None, raised |-> FALSE, ret |-> NoRet,
     out |-> <<>>, exit |-> 0, again |-> FALSE, faults |-> {},
     gotos |-> 0, outcomes |-> <<>>, probed |-> <<>>, chosen |-> 0,
     did |-> <<>>, token |-> None, args |-> <<>>,
     pre |-> [auto |-> <<>>, res |-> <<>>, closed |-> FALSE,
              files |-> <<>>, shots |-> {}]]

\* ------------------------------------------------------- llama_server.py
MaxProcs == 2        \* processes in the process table
MaxSteps == 3        \* calls and moves of the machine in one run of the model

DEFAULT_HOST == "127.0.0.1"
Wild == "0.0.0.0"
Elsewhere == "10.0.0.1"

\* a process: st is "starting" (no socket yet), "listening" or "exited";
\* port says whether its socket is on the port asked about, ip where it is bound
Proc(kind, ip, port, st) == [kind |-> kind, ip |-> ip, port |-> port, st |-> st]

\* what one call did, in order, and the signals it sent
ServerWorld(P) == [procs |-> P, did |-> <<>>, sigs |-> <<>>, skipped |-> {}]
Step(W, what) == [W EXCEPT !.did = Append(@, what)]

\* s.connect_ex((host, port)) == 0
is_port_in_use(P, host) ==
    \E i \in 1..Len(P) :
       P[i].st = "listening" /\ P[i].port /\ P[i].ip \in {host, Wild}

\* what a starting process has become while the caller slept
Evolve(W, pid, how) ==
    [W EXCEPT !.procs[pid].st =
        IF @ # "starting" THEN @
        ELSE IF how = "listen" THEN "listening"
        ELSE IF how = "exit" THEN "exited"
        ELSE @]

Status(running, message, keys) ==
    [running |-> running, message |-> message, keys |-> keys]

start_server_blind(W, host, E) ==
    [w |-> [Step(W, "spawn") EXCEPT
               !.procs = Append(@, Proc("server", host, TRUE, "starting"))],
     proc |-> Len(W.procs) + 1, error |-> <<>>]

start_server_nopoll(W, host, E) ==
    LET pid == Len(W.procs) + 1
        W4 == [W EXCEPT !.did = @ \o <<"probe", "find executable", "find model",
                                        "spawn", "sleep 2", "poll">>,
                        !.procs = Append(@, Proc("server", host, TRUE, "starting"))]
    IN [w |-> Evolve(W4, pid, E.boot), proc |-> pid, error |-> <<>>]

start_server_modelfirst(W, host, E) ==
    LET pid == Len(W.procs) + 1
        W0 == Step(W, "probe")
        W1 == Step(W0, "find model")
        W2 == Step(W1, "find executable")
        W3 == Step(W2, "spawn")
        W4 == [W3 EXCEPT !.procs = Append(@, Proc("server", host, TRUE, "starting"))]
        W5 == Step(Evolve(Step(W4, "sleep 2"), pid, E.boot), "poll")
    IN IF is_port_in_use(W.procs, host)
       THEN [w |-> W0, proc |-> None, error |-> <<"port in use", "port">>]
       ELSE IF ~E.model
       THEN [w |-> W1, proc |-> None, error |-> <<"no model", "model_name">>]
       ELSE IF ~E.exe
       THEN [w |-> W2, proc |-> None, error |-> <<"no executable">>]
       ELSE IF E.spawn = "raise"
       THEN [w |-> W3, proc |-> None, error |-> <<"error starting", "exception">>]
       ELSE IF W5.procs[pid].st = "exited"
       THEN [w |-> W5, proc |-> None, error |-> <<"failed to start", E.stderr>>]
       ELSE [w |-> W5, proc |-> pid, error |-> <<>>]

start_server(W, host, E) ==
    LET pid == Len(W.procs) + 1
        W0 == Step(W, "probe")
        W1 == Step(W0, "find executable")
        W2 == Step(W1, "find model")
        W3 == Step(W2, "spawn")
        W4 == [W3 EXCEPT !.procs = Append(@, Proc("server", host, TRUE, "starting"))]
        W5 == Step(Evolve(Step(W4, "sleep 2"), pid, E.boot), "poll")
    IN IF is_port_in_use(W.procs, host)
       THEN [w |-> W0, proc |-> None, error |-> <<"port in use", "port">>]
       ELSE IF ~E.exe
       THEN [w |-> W1, proc |-> None, error |-> <<"no executable">>]
       ELSE IF ~E.model
       THEN [w |-> W2, proc |-> None, error |-> <<"no model", "model_name">>]
       ELSE IF E.spawn = "raise"
       THEN [w |-> W3, proc |-> None, error |-> <<"error starting", "exception">>]
       ELSE IF W5.procs[pid].st = "exited"
       THEN [w |-> W5, proc |-> None, error |-> <<"failed to start", E.stderr>>]
       ELSE [w |-> W5, proc |-> pid, error |-> <<>>]

HttpOutcomes == {"200", "unparseable", "non200", "raise"}

check_server_status_deaf(W, host, http) ==
    [w |-> Step(W, "connect"),
     ret |-> Status(FALSE, <<"no server", host, "port">>, {"running", "message"})]

check_server_status(W, host, http) ==
    LET W0 == Step(W, "connect")
        W1 == Step(W0, "get")
    IN IF ~is_port_in_use(W.procs, host)
       THEN [w |-> W0,
             ret |-> Status(FALSE, <<"no server", host, "port">>,
                            {"running", "message"})]
       ELSE IF http = "200"
       THEN [w |-> W1,
             ret |-> Status(TRUE, <<"running">>,
                            {"running", "message", "models", "url"})]
       ELSE [w |-> W1,
             ret |-> Status(TRUE, <<"could not confirm", host, "port">>,
                            {"running", "message"})]

ensure_server_running_twice(W, host, E) ==
    LET st == start_server(W, host, E)
        s2 == check_server_status(Evolve(Step(st.w, "sleep 5"), st.proc, E.settle),
                                  host, E.http2)
    IN IF st.error # <<>>
       THEN [w |-> st.w, ret |-> Status(FALSE, st.error, {"running", "message"}),
             proc |-> None]
       ELSE s2 @@ [proc |-> st.proc]

ensure_server_running_recheck(W, host, E) ==
    LET s1 == check_server_status(W, host, E.http)
        st == start_server(s1.w, host, E)
        s2 == check_server_status(Step(st.w, "sleep 5"), host, E.http2)
    IN IF s1.ret.running THEN s1 @@ [proc |-> None]
       ELSE IF st.error # <<>> THEN s2 @@ [proc |-> None]
       ELSE [s2 EXCEPT !.w = Evolve(@, st.proc, E.settle)] @@ [proc |-> st.proc]

ensure_server_running_trusting(W, host, E) ==
    LET s1 == check_server_status(W, host, E.http)
        st == start_server(s1.w, host, E)
    IN IF s1.ret.running THEN s1 @@ [proc |-> None]
       ELSE IF st.error # <<>>
       THEN [w |-> st.w, ret |-> Status(FALSE, st.error, {"running", "message"}),
             proc |-> None]
       ELSE [w |-> st.w, ret |-> Status(TRUE, <<"running">>, {"running", "message"}),
             proc |-> st.proc]

ensure_server_running(W, host, E) ==
    LET s1 == check_server_status(W, host, E.http)
        st == start_server(s1.w, host, E)
        W6 == Evolve(Step(st.w, "sleep 5"), st.proc, E.settle)
        s2 == check_server_status(W6, host, E.http2)
    IN IF s1.ret.running THEN s1 @@ [proc |-> None]
       ELSE IF st.error # <<>>
       THEN [w |-> st.w, ret |-> Status(FALSE, st.error, {"running", "message"}),
             proc |-> None]
       ELSE s2 @@ [proc |-> st.proc]

\* `conn.laddr.port == port and (conn.laddr.ip == host or host == "0.0.0.0")`
\* for some connection of the process; a process that is starting has none
Matches(pr, host) ==
    pr.st = "listening" /\ pr.port /\ (pr.ip = host \/ host = Wild)

AccessOutcomes == {"ok", "gone", "denied", "zombie"}
Gone(W, i) == [W EXCEPT !.procs[i].st = "exited"]
Signal(W, i, sig) == [W EXCEPT !.sigs = Append(@, <<i, sig>>)]
NotFound(W, host) ==
    [w |-> W, ok |-> FALSE, error |-> <<"no server", host, "port">>]
Stopped(W) == [w |-> W, ok |-> TRUE, error |-> <<>>]

RECURSIVE ScanEager(_, _, _, _)
ScanEager(W, host, E, i) ==
    IF i > Len(W.procs) THEN NotFound(W, host)
    ELSE IF W.procs[i].st = "exited" THEN ScanEager(W, host, E, i + 1)
    ELSE Stopped(Gone(Signal(W, i, "kill"), i))

\* the loop over psutil.process_iter, from the i-th process on
RECURSIVE Scan(_, _, _, _)
Scan(W, host, E, i) ==
    IF i > Len(W.procs) THEN NotFound(W, host)
    ELSE IF W.procs[i].st = "exited" THEN Scan(W, host, E, i + 1)
    ELSE IF E.access[i] # "ok"
    THEN Scan([(IF E.access[i] = "denied" THEN W ELSE Gone(W, i))
                  EXCEPT !.skipped = @ \cup {i}], host, E, i + 1)
    ELSE IF ~Matches(W.procs[i], host) THEN Scan(W, host, E, i + 1)
    ELSE IF E.term = "denied" THEN Scan(Step(W, "terminate"), host, E, i + 1)
    ELSE IF E.term = "gone" THEN Scan(Gone(Step(W, "terminate"), i), host, E, i + 1)
    ELSE LET W1 == Step(Signal(Step(W, "terminate"), i, "term"), "wait 5")
             W2 == Step(W1, "kill")
             W3 == Signal(W2, i, "kill")
         IN IF E.grace = "exits" THEN Stopped(Gone(W1, i))
            ELSE IF E.kill = "gone" THEN Scan(Gone(W2, i), host, E, i + 1)
            ELSE Stopped(IF E.reaped THEN Gone(W3, i) ELSE W3)

stop_server(W, host, E) == Scan(W, host, E, 1)

\* what the machine does during one call
QuietServer ==
    [exe |-> TRUE, model |-> TRUE, spawn |-> "ok", boot |-> "slow", stderr |-> "",
     settle |-> "same", http |-> "200", http2 |-> "200",
     access |-> [i \in 1..MaxProcs |-> "ok"], term |-> "ok", grace |-> "exits",
     kill |-> "ok", reaped |-> TRUE]

NoStatus == Status(FALSE, <<>>, {})
NoBrief == [op |-> "none", host |-> DEFAULT_HOST, ret |-> NoStatus, did |-> <<>>,
            http |-> "200", inuse |-> FALSE]
NoCall ==
    [op |-> "none", host |-> DEFAULT_HOST, ret |-> NoStatus, ok |-> FALSE,
     error |-> <<>>, proc |-> None, did |-> <<>>, sigs |-> <<>>, skipped |-> {},
     http |-> "200", http2 |-> "200", stderr |-> "",
     access |-> [i \in 1..MaxProcs |-> "ok"], pre |-> <<>>, prev |-> NoBrief,
     exe |-> TRUE, model |-> TRUE]

Brief(c) == [op |-> c.op, host |-> c.host, ret |-> c.ret, did |-> c.did,
             http |-> c.http, inuse |-> is_port_in_use(c.pre, c.host)]

\* ------------------------------------------- structured_extraction.py
\* the number of characters of page HTML that go into a prompt
HTML_BUDGET == 10000
MaxExtra == 3

\* webpage.html[:n] of a string of len characters: the characters it keeps,
\* as positions lo..hi of the string (hi < lo: none)
SliceTo(len, n) == [lo |-> 1, hi |-> Min(len, n)]

html_preview_inclusive(len) ==
    [part |-> SliceTo(len, HTML_BUDGET), marker |-> len >= HTML_BUDGET]

\* html_preview: the slice and whether "..." follows it
html_preview(len) ==
    [part |-> SliceTo(len, HTML_BUDGET), marker |-> len > HTML_BUDGET]

\* a WebPage: its url and title, and its HTML by its length
Pages == [url : {"u1", "u2"}, title : {"t"}, len : 0..(HTML_BUDGET + MaxExtra)]
Schemas == {"ProductInfo", "ArticleContent"}
\* Python's None where a page, a schema, a prompt or a dict is expected
NoPage == [url |-> "", title |-> "", len |-> 0]
NoSchema == ""
NoPrompt == [url |-> "", title |-> "", schema_info |-> "", instructions |-> FALSE,
             html |-> [part |-> [lo |-> 1, hi |-> 0], marker |-> FALSE]]
NoDict == ""

\* _generate_extraction_prompt: it reads schema.__name__ and the page's
\* attributes, so it raises when either is None
generate_extraction_prompt(webpage, schema, instructions) ==
    IF schema = NoSchema \/ webpage = NoPage
    THEN [raised |-> TRUE, error |-> "attribute", prompt |-> NoPrompt]
    ELSE [raised |-> FALSE, error |-> "",
          prompt |-> [url |-> webpage.url, title |-> webpage.title,
                      schema_info |-> schema, instructions |-> instructions,
                      html |-> html_preview(webpage.len)]]

\* what the model endpoint can do with one request: answer with an instance
\* of the schema, answer with something that is no model, or fail
Answered == {"d1", "d2"}
Messages == {"timeout", "refused"}
Endpoint ==
    {[kind |-> "model", fields |-> d, message |-> ""] : d \in Answered}
    \cup {[kind |-> "nomodel", fields |-> NoDict, message |-> ""]}
    \cup {[kind |-> "raise", fields |-> NoDict, message |-> m] : m \in Messages}

\* response.model_dump(): the fields of a model instance, an AttributeError
\* on anything else
model_dump(response) ==
    IF response.kind = "model"
    THEN [raised |-> FALSE, error |-> "", dict |-> response.fields]
    ELSE [raised |-> TRUE, error |-> "attribute", dict |-> NoDict]

NoAnswer == [success |-> FALSE, keys |-> {}, data |-> NoDict, error |-> "",
             model |-> NoSchema, url |-> ""]

\* the record extract_data's handler returns for an exception
Caught(webpage, schema, error) ==
    [NoAnswer EXCEPT !.keys = {"success", "error", "traceback", "model", "url"},
                     !.error = error,
                     !.model = IF schema # NoSchema THEN schema ELSE NoSchema,
                     !.url = IF webpage # NoPage THEN webpage.url ELSE ""]

extract_data_nocatch(webpage, schema, instructions, E) ==
    LET g == generate_extraction_prompt(webpage, schema, instructions)
        d == model_dump(E)
    IN IF g.raised
       THEN [raised |-> TRUE, calls |-> 0, ret |-> NoAnswer]
       ELSE IF E.kind = "raise" \/ d.raised
            THEN [raised |-> TRUE, calls |-> 1, ret |-> NoAnswer]
       ELSE [raised |-> FALSE, calls |-> 1,
             ret |-> [NoAnswer EXCEPT !.success = TRUE,
                                      !.keys = {"success", "data", "model", "url"},
                                      !.data = d.dict, !.model = schema,
                                      !.url = webpage.url]]

\* ExtractorClient.extract_data: calls is how often it asked the endpoint
extract_data(webpage, schema, instructions, E) ==
    LET g == generate_extraction_prompt(webpage, schema, instructions)
        d == model_dump(E)
    IN IF g.raised
       THEN [raised |-> FALSE, calls |-> 0, ret |-> Caught(webpage, schema, g.error)]
       ELSE IF E.kind = "raise"
            THEN [raised |-> FALSE, calls |-> 1,
                  ret |-> Caught(webpage, schema, E.message)]
       ELSE IF d.raised
            THEN [raised |-> FALSE, calls |-> 1,
                  ret |-> Caught(webpage, schema, d.error)]
       ELSE [raised |-> FALSE, calls |-> 1,
             ret |-> [NoAnswer EXCEPT !.success = TRUE,
                                      !.keys = {"success", "data", "model", "url"},
                                      !.data = d.dict, !.model = schema,
                                      !.url = webpage.url]]

NoEndpoint == [kind |-> "none", fields |-> NoDict, message |-> ""]
NoJob == [op |-> "none", webpage |-> NoPage, schema |-> NoSchema,
          instructions |-> FALSE, env |-> NoEndpoint, prompt |-> NoPrompt,
          raised |-> FALSE, calls |-> 0, ret |-> NoAnswer,
          did |-> <<>>, nav |-> NoRet, sr |-> NoRet, ext |-> NoAnswer]

\* the callers of start_server that may run at the same time
Callers == {"c1", "c2"}
NoCaller == [pc |-> "idle", saw |-> FALSE, pid |-> None]


\* script processes that may be alive at the same time
Scripts == {"A", "B"}
NoRun == [pc |-> "idle", given |-> None, sid |-> None]

VARIABLES
    autos,      \* a -> fields of the WebAutomator object in use
    res,        \* a -> the Playwright objects that automator created, in order
    files,      \* token -> content of sessions/<token>.json
    shots,      \* screenshot files present: <<token, "png" | "search">>
    closedOnce, \* automators on which close() has run
    saved,      \* token -> the storage state save_session last captured for it
    nfaults,    \* library calls that have failed for an outside reason
    ncalls,     \* constructions and operations so far
    last,       \* what the last operation was given and what it answered
    runs,       \* script process -> where it is in main() and its session token
    procs,      \* the machine's process table, seen from llama_server.py
    slast,      \* the last llama_server.py call and the one before it
    job,        \* the last extraction call: what it was given and answered
    callers     \* caller of start_server -> where it is in the function

vars == <<autos, res, files, shots, closedOnce, saved, nfaults, ncalls, last,
          runs, procs, slast, job, callers>>
server == <<procs, slast>>
others == <<job, callers>>

World == [autos |-> autos, res |-> res, files |-> files, shots |-> shots,
          closedOnce |-> closedOnce, saved |-> saved, out |-> <<>>,
          again |-> FALSE,
          used |-> {}]

\* WebAutomator.__init__
NewAutomator(a, debug) ==
    [debug |-> debug, playwright |-> None, browser |-> None,
     context |-> None, page |-> None, session_id |-> a]

Create(W, a, rec) == [W EXCEPT !.res[a] = Append(@, rec)]
Use(W, site) == [W EXCEPT !.used = @ \cup {site}]
Raise(W) == [w |-> W, raised |-> TRUE, ret |-> NoRet]
Return(W, ret) == [w |-> W, raised |-> FALSE, ret |-> ret]

\* ------------------------------------------------------- start_browser
start_browser(W, a, E) ==
    LET d == Len(W.res[a]) + 1
        W1 == [Create(W, a, NewRes("driver", None, EmptyState, FALSE))
                  EXCEPT !.autos[a].playwright = d]
        W2 == [Create(W1, a, NewRes("browser", d, EmptyState, FALSE))
                  EXCEPT !.autos[a].browser = d + 1]
        W3 == [Create(W2, a, NewRes("context", d + 1, EmptyState, FALSE))
                  EXCEPT !.autos[a].context = d + 2]
        W4 == [Create(W3, a, NewRes("page", d + 2, EmptyState, W.autos[a].debug))
                  EXCEPT !.autos[a].page = d + 3]
    IN IF "start:driver" \in E.faults THEN Raise(Use(W, "start:driver"))
       ELSE IF "start:launch" \in E.faults THEN Raise(Use(W1, "start:launch"))
       ELSE IF "start:context" \in E.faults THEN Raise(Use(W2, "start:context"))
       ELSE IF "start:page" \in E.faults THEN Raise(Use(W3, "start:page"))
       ELSE Return(W4, NoRet)

\* --------------------------------------------------------------- close
\* one close() or stop() call on a Playwright object; a call that raises
\* leaves the object as it was
Release(W, a, r, ok) ==
    [W EXCEPT !.res[a][r].open = IF ok THEN FALSE ELSE @,
              !.res[a][r].state = IF ok THEN EmptyState ELSE @,
              !.again = @ \/ ~W.res[a][r].open]

close(W, a, E) ==
    LET A == W.autos[a]
        Wc == [W EXCEPT !.closedOnce = @ \cup {a}]
        r1 == A.context # None /\ "close:context" \in E.faults
        W1 == IF A.context = None THEN Wc
              ELSE IF r1 THEN Use(Release(Wc, a, A.context, FALSE), "close:context")
              ELSE Release(Wc, a, A.context, TRUE)
        r2 == A.browser # None /\ "close:browser" \in E.faults
        W2 == IF A.browser = None THEN W1
              ELSE IF r2 THEN Use(Release(W1, a, A.browser, FALSE), "close:browser")
              ELSE Release(W1, a, A.browser, TRUE)
        r3 == A.playwright # None /\ "close:driver" \in E.faults
        W3 == IF A.playwright = None THEN W2
              ELSE IF r3 THEN Use(Release(W2, a, A.playwright, FALSE), "close:driver")
              ELSE Release(W2, a, A.playwright, TRUE)
    IN IF r1 THEN Raise(W1)
       ELSE IF r2 THEN Raise(W2)
       ELSE IF r3 THEN Raise(W3)
       ELSE Return(W3, NoRet)

\* -------------------------------------------------------- save_session
save_session_nowrite(W, a, E) ==
    LET A == W.autos[a]
    IN IF A.context = None \/ ~Alive(W.res[a], A.context) THEN Raise(W)
       ELSE Return(W, [NoRet EXCEPT !.success = TRUE, !.session_id = A.session_id])

save_session(W, a, E) ==
    LET A == W.autos[a]
        dead == A.context = None \/ ~Alive(W.res[a], A.context)
        doc == json_dump(W.res[a][A.context].state)
        part == SubSeq(doc, 1, Min(E.cut, Len(doc) - 1))
    IN IF dead THEN Raise(W)
       ELSE IF "save:state" \in E.faults THEN Raise(Use(W, "save:state"))
       ELSE IF "save:open" \in E.faults THEN Raise(Use(W, "save:open"))
       ELSE IF "save:dump" \in E.faults
            THEN Raise(Use([W EXCEPT !.files[A.session_id] = part], "save:dump"))
       ELSE Return([W EXCEPT !.files[A.session_id] = doc,
                             !.saved[A.session_id] =
                                 [by |-> a, state |-> W.res[a][A.context].state]],
                   [NoRet EXCEPT !.success = TRUE, !.session_id = A.session_id])

\* -------------------------------------------------------- load_session
DiscardContext_keep(W, a, E) == [w |-> W, raised |-> FALSE]

\* `if self.context: self.context.close()`
DiscardContext(W, a, E) ==
    LET A == W.autos[a]
    IN IF A.context = None THEN [w |-> W, raised |-> FALSE]
       ELSE IF "load:close" \in E.faults
            THEN [w |-> Use(Release(W, a, A.context, FALSE), "load:close"),
                  raised |-> TRUE]
       ELSE [w |-> Release(W, a, A.context, TRUE), raised |-> FALSE]

load_session_consume(W, a, t, E) == Return([W EXCEPT !.files[t] = NoFile], NoRet)

load_session(W, a, t, E) ==
    LET A == W.autos[a]
        dc == DiscardContext(W, a, E)
        W1 == dc.w
        c == Len(W1.res[a]) + 1
        W2 == [Create(W1, a, NewRes("context", A.browser, json_load(W.files[t]), FALSE))
                  EXCEPT !.autos[a].context = c]
        W3 == [Create(W2, a, NewRes("page", c, EmptyState, FALSE))
                  EXCEPT !.autos[a].page = c + 1]
    IN IF W.files[t] = NoFile THEN Return(W, NoRet)
       ELSE IF dc.raised THEN Raise(W1)
       ELSE IF "load:read" \in E.faults THEN Raise(Use(W1, "load:read"))
       ELSE IF ~WellFormed(W.files[t]) THEN Raise(W1)
       ELSE IF A.browser = None \/ ~Alive(W1.res[a], A.browser) THEN Raise(W1)
       ELSE IF "load:context" \in E.faults THEN Raise(Use(W1, "load:context"))
       ELSE IF "load:page" \in E.faults THEN Raise(Use(W2, "load:page"))
       ELSE Return([W3 EXCEPT !.autos[a].session_id = t],
                   [NoRet EXCEPT !.success = TRUE])

\* ------------------------------------------------------------ navigate
SuccessKeys == {"success", "url", "title", "html", "screenshot", "session_id",
                "timestamp"}

\* activity of a live page: the site sets the storage state of the page's
\* context, and a console message reaches the listener start_browser
\* registered in debug mode, which prints it
Activity(W, a, E) ==
    LET p == W.autos[a].page
        c == W.res[a][p].parent
    IN [W EXCEPT !.res[a][c].state = E.state,
                 !.out = IF E.console /\ W.res[a][p].listen
                         THEN Append(@, "text") ELSE @]

\* the body of navigate's try block
NavigateBody(W, a, E) ==
    LET A == W.autos[a]
        sid == A.session_id
        nopage == A.page = None
        dead == ~Alive(W.res[a], A.page)
        W1 == Activity(W, a, E)
        W2 == [W1 EXCEPT !.res[a][A.page].loaded = TRUE]
        W3 == [W2 EXCEPT !.shots = @ \cup {<<sid, "png">>}]
        sv == save_session(W3, a, E)
    IN IF nopage THEN [Raise(W) EXCEPT !.ret.error = "exception"]
       ELSE IF dead THEN [Raise(W) EXCEPT !.ret.error = "exception"]
       ELSE IF "nav:goto" \in E.faults THEN Raise(Use(W1, "nav:goto"))
       ELSE IF "nav:idle" \in E.faults THEN Raise(Use(W2, "nav:idle"))
       ELSE IF "nav:content" \in E.faults THEN Raise(Use(W2, "nav:content"))
       ELSE IF "nav:screenshot" \in E.faults THEN Raise(Use(W2, "nav:screenshot"))
       ELSE IF "nav:read" \in E.faults THEN Raise(Use(W3, "nav:read"))
       ELSE IF sv.raised THEN Raise(sv.w)
       ELSE Return(sv.w, [success |-> TRUE, keys |-> SuccessKeys,
                          session_id |-> sv.ret.session_id, error |-> ""])

\* page loads navigate attempts: one page.goto unless there is no page object
NavigateGotos(W, a) == IF W.autos[a].page = None THEN 0 ELSE 1

navigate_nocatch(W, a, E) == NavigateBody(W, a, E)

navigate(W, a, E) ==
    LET b == NavigateBody(W, a, E)
    IN IF b.raised
       THEN Return(b.w, [success |-> FALSE, keys |-> {"success", "error", "url"},
                         session_id |-> None, error |-> "exception"])
       ELSE b

\* -------------------------------------------------------------- search
\* what page.query_selector answers for the i-th selector: it raises on a
\* missing or closed page, and a page that never loaded holds no element
Answer(W, a, E, i) ==
    LET p == W.autos[a].page
    IN IF p = None \/ ~Alive(W.res[a], p) THEN "raise"
       ELSE IF ~W.res[a][p].loaded /\ E.outcomes[i] = "elem" THEN "none"
       ELSE E.outcomes[i]

Answers(W, a, E) == [i \in 1..Len(Selectors) |-> Answer(W, a, E, i)]

RECURSIVE ProbeLast(_, _)
ProbeLast(outs, i) ==
    IF i > Len(outs) THEN [probed |-> <<>>, chosen |-> 0]
    ELSE LET r == ProbeLast(outs, i + 1)
         IN [probed |-> <<i>> \o r.probed,
             chosen |-> IF r.chosen # 0 THEN r.chosen
                        ELSE IF outs[i] = "elem" THEN i ELSE 0]

\* the for loop over search_input_selectors, from the i-th selector on
RECURSIVE Probe(_, _)
Probe(outs, i) ==
    IF i > Len(outs) THEN [probed |-> <<>>, chosen |-> 0]
    ELSE IF outs[i] = "elem" THEN [probed |-> <<i>>, chosen |-> i]
    ELSE LET r == Probe(outs, i + 1)
         IN [probed |-> <<i>> \o r.probed, chosen |-> r.chosen]

SearchSteps == <<"click", "fill", "type", "press", "idle", "content",
                 "screenshot", "read", "save">>
SearchStepSites == <<"search:click", "search:fill", "search:type", "search:press",
                     "search:idle", "search:content", "search:screenshot",
                     "search:read">>

FirstFail(E) ==
    LET fs == {i \in 1..Len(SearchStepSites) : SearchStepSites[i] \in E.faults}
    IN IF fs = {} THEN Len(SearchSteps)
       ELSE CHOOSE i \in fs : \A j \in fs : i <= j

\* the body of search's try block
SearchBody(W, a, E) ==
    LET A == W.autos[a]
        sid == A.session_id
        pr == Probe(Answers(W, a, E), 1)
        k == FirstFail(E)
        Wp == IF k > 4 THEN Activity(W, a, E) ELSE W
        Ws == IF k > 7 THEN [Wp EXCEPT !.shots = @ \cup {<<sid, "search">>}] ELSE Wp
        sv == save_session(Ws, a, E)
        info == [probed |-> pr.probed, chosen |-> pr.chosen,
                 did |-> IF pr.chosen = 0 THEN <<>> ELSE SubSeq(SearchSteps, 1, k)]
    IN IF pr.chosen = 0
       THEN Return(W, [success |-> FALSE, keys |-> {"success", "error"},
                       session_id |-> None, error |-> "no search input"]) @@ info
       ELSE IF k < Len(SearchSteps) THEN Raise(Use(Ws, SearchStepSites[k])) @@ info
       ELSE IF sv.raised THEN Raise(sv.w) @@ info
       ELSE Return(sv.w, [success |-> TRUE, keys |-> SuccessKeys \cup {"query"},
                          session_id |-> sv.ret.session_id, error |-> ""]) @@ info

search(W, a, E) ==
    LET b == SearchBody(W, a, E)
    IN IF b.raised
       THEN [b EXCEPT !.raised = FALSE,
                      !.ret = [success |-> FALSE, keys |-> {"success", "error", "query"},
                               session_id |-> None, error |-> "exception"]]
       ELSE b

\* ---------------------------------------------------------------- main
Actions == {"navigate", "search", "screenshot"}
Failure == [success |-> FALSE, keys |-> {"success", "error"},
            session_id |-> None, error |-> "invalid"]
\* the record main()'s exception handler prints
Handled == [success |-> FALSE, keys |-> {"success", "error", "traceback"},
            session_id |-> None, error |-> "exception"]

Emit(W, doc) == [W EXCEPT !.out = Append(@, doc)]

MainBlock_proceed(W, a, args, E) ==
    LET ld == load_session(W, a, args.session, E)
        Wl == IF args.session = None THEN W ELSE ld.w
        r == IF args.action = "navigate" /\ args.url THEN navigate(Wl, a, E)
             ELSE IF args.action = "search" /\ args.query THEN search(Wl, a, E)
             ELSE Return(Wl, Failure)
    IN IF args.session # None /\ ld.raised THEN Raise(ld.w)
       ELSE Return(Emit(r.w, "json"), r.ret)

\* the block under `with WebAutomator(...) as automator`
MainBlock(W, a, args, E) ==
    LET ld == load_session(W, a, args.session, E)
        Wl == IF args.session = None THEN W ELSE ld.w
        r == IF args.action = "navigate" /\ args.url THEN navigate(Wl, a, E)
             ELSE IF args.action = "search" /\ args.query THEN search(Wl, a, E)
             ELSE Return(Wl, Failure)
    IN IF args.session # None /\ ld.raised THEN Raise(ld.w)
       ELSE IF args.session # None /\ ~ld.ret.success
            THEN Return(Emit(ld.w, "json"), [Failure EXCEPT !.error = "session"])
       ELSE Return(Emit(r.w, "json"), r.ret)

\* main(): __enter__, the block, __exit__, and the handler around them
main(W, a, args, E) ==
    LET st == start_browser(W, a, E)
        blk == MainBlock(st.w, a, args, E)
        cl == close(blk.w, a, E)
    IN IF st.raised THEN Return(Emit(st.w, "json"), Handled) @@ [exit |-> 0]
       ELSE IF blk.raised \/ cl.raised
            THEN Return(Emit(cl.w, "json"), Handled) @@ [exit |-> 0]
       ELSE Return(cl.w, blk.ret) @@ [exit |-> 0]

\* ------------------------------------------------ orchestration scripts
\* the record a script returns: did is the stages it ran, nav, sr and ext
\* are what navigate, search and the extraction answered
Outcome(W, did, ret, nav, sr, ext, calls) ==
    [w |-> W, did |-> did, ret |-> ret, nav |-> nav, sr |-> sr, ext |-> ext,
     calls |-> calls]

\* extract_example.py: the block under `with WebAutomator(...) as automator`
ExtractBlock(W, a, schema_name, len, X) ==
    LET E == X.web
        nav == navigate(W, a, E)
        webpage == [url |-> "u1", title |-> "t", len |-> len]
        ext == extract_data(webpage, schema_name, FALSE, X.endpoint)
        combined == [NoAnswer EXCEPT
                        !.success = ext.ret.success,
                        !.keys = {"success", "url", "title", "schema", "timestamp",
                                  "screenshot"}
                                 \cup (IF ext.ret.success THEN {"data"} ELSE {"error"}),
                        !.data = ext.ret.data, !.error = ext.ret.error,
                        !.url = "u1"]
    IN IF ~nav.ret.success
       THEN Outcome(nav.w, <<"navigate">>,
                    [NoAnswer EXCEPT !.keys = {"success", "error", "url"},
                                     !.error = nav.ret.error, !.url = "u1"],
                    nav.ret, NoRet, NoAnswer, 0)
       ELSE IF schema_name \notin Schemas
            THEN Outcome(nav.w, <<"navigate", "schema">>,
                         [NoAnswer EXCEPT !.keys = {"success", "error", "url"},
                                          !.error = "unknown schema", !.url = "u1"],
                         nav.ret, NoRet, NoAnswer, 0)
       ELSE Outcome(nav.w, <<"navigate", "schema", "extract">>, combined,
                    nav.ret, NoRet, ext.ret, ext.calls)

\* extract_from_url: __enter__, the block, __exit__, and the handler around
extract_from_url(W, a, schema_name, len, X) ==
    LET st == start_browser(W, a, X.web)
        blk == ExtractBlock(st.w, a, schema_name, len, X)
        cl == close(blk.w, a, X.web)
        handled == [NoAnswer EXCEPT !.keys = {"success", "error", "traceback", "url"},
                                    !.error = "exception", !.url = "u1"]
    IN IF st.raised
       THEN Outcome(st.w, <<>>, handled, NoRet, NoRet, NoAnswer, 0)
       ELSE IF cl.raised
            THEN Outcome(cl.w, blk.did, handled, blk.nav, blk.sr, blk.ext, blk.calls)
       ELSE [blk EXCEPT !.w = cl.w]

\* proxy_lite_example.py: the block under `with WebAutomator(...) as automator`,
\* given what navigate and, after it, search answered
ProxyBlock(nav, sr, X) ==
    LET d == model_dump(X.endpoint)
    IN IF ~nav.ret.success
       THEN Outcome(nav.w, <<"navigate">>,
                    [NoAnswer EXCEPT !.keys = {"success", "error", "query"},
                                     !.error = nav.ret.error],
                    nav.ret, NoRet, NoAnswer, 0) @@ [raised |-> FALSE]
       ELSE IF ~sr.ret.success
            THEN Outcome(sr.w, <<"navigate", "search">>,
                         [NoAnswer EXCEPT !.keys = {"success", "error", "query"},
                                          !.error = sr.ret.error],
                         nav.ret, sr.ret, NoAnswer, 0) @@ [raised |-> FALSE]
       ELSE IF X.endpoint.kind = "raise" \/ d.raised
            THEN Outcome(sr.w, <<"navigate", "search", "extract">>,
                         [NoAnswer EXCEPT !.error = IF d.raised /\ X.endpoint.kind # "raise"
                                                    THEN d.error
                                                    ELSE X.endpoint.message],
                         nav.ret, sr.ret, NoAnswer, 1) @@ [raised |-> TRUE]
       ELSE Outcome(sr.w, <<"navigate", "search", "extract">>,
                    [NoAnswer EXCEPT !.success = TRUE,
                                     !.keys = {"success", "query", "results",
                                               "screenshot"},
                                     !.data = d.dict],
                    nav.ret, sr.ret, NoAnswer, 1) @@ [raised |-> FALSE]

\* ProxyLite3BAutomation.search: __enter__ answered st; the block, __exit__,
\* and the handler around them
proxy_search(st, nav, sr, a, X) ==
    LET blk == ProxyBlock(nav, sr, X)
        cl == close(blk.w, a, X.web)
        keys == {"success", "error", "traceback", "query"}
    IN IF st.raised
       THEN Outcome(st.w, <<>>,
                    [NoAnswer EXCEPT !.keys = keys, !.error = "exception"],
                    NoRet, NoRet, NoAnswer, 0)
       ELSE IF blk.raised
            THEN Outcome(cl.w, blk.did,
                         [NoAnswer EXCEPT !.keys = keys, !.error = blk.ret.error],
                         blk.nav, blk.sr, NoAnswer, blk.calls)
       ELSE IF cl.raised
            THEN Outcome(cl.w, blk.did,
                         [NoAnswer EXCEPT !.keys = keys, !.error = "exception"],
                         blk.nav, blk.sr, NoAnswer, blk.calls)
       ELSE Outcome(cl.w, blk.did, blk.ret, blk.nav, blk.sr, NoAnswer, blk.calls)

\* ------------------------------------------------------------- actions
\* an operation stops at the first call that fails, so one operation meets
\* at most one failure
Budget == MaxFaults - nfaults
Autos == DOMAIN autos

Apply(W) ==
    /\ ncalls < MaxCalls
    /\ ncalls' = ncalls + 1
    /\ nfaults + Cardinality(W.used) <= MaxFaults
    /\ autos' = W.autos
    /\ res' = W.res
    /\ files' = W.files
    /\ shots' = W.shots
    /\ closedOnce' = W.closedOnce
    /\ saved' = W.saved
    /\ nfaults' = nfaults + Cardinality(W.used)
    /\ UNCHANGED <<runs, server, callers>>

Commit(W) == Apply(W) /\ UNCHANGED job

\* the choices of the outside world that an operation can observe
Quiet(F) == Env(F, EmptyState, FALSE, 0, Misses)
Cuts(F) == IF "save:dump" \in F THEN 0..(2 * MaxCookies) ELSE {0}
LivePage(a) == autos[a].page # None /\ Alive(res[a], autos[a].page)
Consoles(a, dbg) == IF dbg THEN BOOLEAN ELSE {FALSE}
Listening(a) == LivePage(a) /\ res[a][autos[a].page].listen
Loaded(a) == LivePage(a) /\ res[a][autos[a].page].loaded
UniformVectors == {[i \in 1..Len(Selectors) |-> o] : o \in ProbeOutcomes}

Done(op, a, r, E) ==
    [NoLast EXCEPT !.op = op, !.a = a, !.raised = r.raised, !.ret = r.ret,
                   !.out = r.w.out, !.again = r.w.again, !.faults = r.w.used,
                   !.pre = [auto |-> autos[a], res |-> res[a],
                            closed |-> a \in closedOnce,
                            files |-> files, shots |-> shots]]

Init ==
    /\ \E debug \in BOOLEAN : autos = (1 :> NewAutomator(1, debug))
    /\ res = (1 :> <<>>)
    /\ files = [t \in Tokens |-> NoFile]
    /\ shots = {}
    /\ closedOnce = {}
    /\ saved = [t \in Tokens |-> [by |-> None, state |-> EmptyState]]
    /\ nfaults = 0
    /\ ncalls = 0
    /\ last = NoLast
    /\ runs = [p \in Scripts |-> NoRun]
    /\ procs = <<>>
    /\ slast = NoCall
    /\ job = NoJob
    /\ callers = [c \in Callers |-> NoCaller]

\* the next script run or caller constructs its WebAutomator; the objects of
\* the one before are gone with its process
Construct(a) ==
    /\ ncalls < MaxCalls
    /\ \E debug \in BOOLEAN :
          /\ autos' = ((a + 1) :> NewAutomator(a + 1, debug))
          /\ res' = ((a + 1) :> <<>>)
          /\ closedOnce' = {}
          /\ ncalls' = ncalls + 1
          /\ last' = [NoLast EXCEPT !.op = "construct", !.a = a + 1]
          /\ UNCHANGED <<files, shots, saved, nfaults, runs, server, others>>

StartBrowserWith(a, sites) ==
    \E F \in FaultSets(sites, Min(Budget, 1)) :
       LET E == Quiet(F)
       IN \E r \in {start_browser(World, a, E)} :
          /\ Commit(r.w)
          /\ last' = Done("start_browser", a, r, E)

StartBrowser(a) == StartBrowserWith(a, StartSites)

SaveSession(a) ==
    \E F \in FaultSets(SaveSites, Min(Budget, 1)) : \E cut \in Cuts(F) :
       LET E == Env(F, EmptyState, FALSE, cut, Misses)
       IN \E r \in {save_session(World, a, E)} :
          /\ Commit(r.w)
          /\ last' = Done("save_session", a, r, E)

LoadSession(a, t) ==
    \E F \in FaultSets(LoadSites, Min(Budget, 1)) :
       LET E == Quiet(F)
       IN \E r \in {load_session(World, a, t, E)} :
          /\ Commit(r.w)
          /\ last' = [Done("load_session", a, r, E) EXCEPT !.token = t]

NavigateWith(a, sites, states) ==
    \E F \in FaultSets(sites, Min(Budget, 1)) :
       \E s \in IF LivePage(a) THEN states ELSE {EmptyState}, console \in Consoles(a, Listening(a)), cut \in Cuts(F) :
          LET E == Env(F, s, console, cut, Misses)
          IN \E r \in {navigate(World, a, E)} :
             /\ Commit(r.w)
             /\ last' = [Done("navigate", a, r, E)
                            EXCEPT !.gotos = NavigateGotos(World, a)]

Navigate(a) == NavigateWith(a, NavSites \cup SaveSites, StorageStates)

SearchOn(a, vectors, sites, states) ==
    \E outs \in IF LivePage(a) THEN vectors ELSE {Misses} :
       LET hit == Loaded(a) /\ \E i \in 1..Len(outs) : outs[i] = "elem"
       IN \E F \in IF hit THEN FaultSets(sites, Min(Budget, 1)) ELSE {{}} :
          \E s \in IF hit THEN states ELSE {EmptyState},
             console \in Consoles(a, hit /\ Listening(a)), cut \in Cuts(F) :
             LET E == Env(F, s, console, cut, outs)
             IN \E r \in {search(World, a, E)} :
                /\ Commit(r.w)
                /\ last' = [Done("search", a, r, E)
                               EXCEPT !.outcomes = Answers(World, a, E),
                                      !.probed = r.probed, !.chosen = r.chosen,
                                      !.did = r.did]

Search(a) == SearchOn(a, UniformVectors, SearchSites \cup SaveSites, StorageStates)

Close(a) ==
    \E F \in FaultSets(CloseSites, Min(Budget, 1)) :
       LET E == Quiet(F)
       IN \E r \in {close(World, a, E)} :
          /\ Commit(r.w)
          /\ last' = Done("close", a, r, E)

\* the command lines that differ in what main() does with them
Args == [session : {None} \cup Tokens, action : Actions, url : BOOLEAN,
         query : BOOLEAN]
ArgKinds == {g \in Args : /\ g.url => g.action = "navigate"
                          /\ g.query => g.action = "search"}

\* one run of the script, on the automator it constructs
Main(a) ==
    /\ res[a] = <<>>
    /\ a \notin closedOnce
    /\ \E args \in {g \in ArgKinds : g.session <= a} :
       \E F \in FaultSets(StartSites \cup LoadSites \cup NavSites \cup SaveSites
                          \cup CloseSites, Min(Budget, 2)) :
       \E s \in IF args.url THEN StorageStates ELSE {EmptyState},
          console \in Consoles(a, args.url /\ autos[a].debug /\ args.session = None),
          cut \in Cuts(F) :
          LET E == Env(F, s, console, cut, Misses)
          IN \E r \in {main(World, a, args, E)} :
             /\ Commit(r.w)
             /\ last' = [Done("main", a, r, E) EXCEPT !.exit = r.exit,
                                                     !.args = args]

Next ==
    \/ \E a \in Autos : Construct(a)
    \/ \E a \in Autos : StartBrowser(a)
    \/ \E a \in Autos : SaveSession(a)
    \/ \E a \in Autos : \E t \in 1..a : LoadSession(a, t)
    \/ \E a \in Autos : Navigate(a)
    \/ \E a \in Autos : Search(a)
    \/ \E a \in Autos : Close(a)

\* the operations of WebAutomator objects, called in any order
Spec == Init /\ [][Next]_vars

NextMain ==
    \/ \E a \in Autos : Construct(a)
    \/ \E a \in Autos : Main(a)

\* runs of the script, one after another
SpecMain == Init /\ [][NextMain]_vars

AllVectors == MarkedVectors(MaxMarked)

\* a search of the page as the last operation left it, once per operation
SearchAll(a) ==
    /\ last.op # "search"
    /\ SearchOn(a, AllVectors, {}, {EmptyState})

NextSearch ==
    \/ \E a \in Autos : StartBrowserWith(a, {})
    \/ \E a \in Autos : NavigateWith(a, {}, {EmptyState})
    \/ \E a \in Autos : SearchAll(a)

\* searches on the pages one automator loads, over what the probes answer;
\* every other library call succeeds
SpecSearch == Init /\ [][NextSearch]_vars

\* ------------------------------------------- script processes side by side
\* Steps of one `web_automation.py --action navigate --url U [--session T]`
\* process, at the grain of its file accesses.  Nothing in the script takes a
\* lock or looks for another process, so the steps of two processes interleave.
web == <<autos, res, shots, closedOnce, saved, nfaults, last>>

\* the file a process has open at its position, if any
Accessing(r) ==
    IF r.pc \in {"reading", "saving"} THEN <<r.sid, "json">>
    ELSE IF r.pc \in {"shooting", "encoding"} THEN <<r.sid, "png">>
    ELSE <<>>

\* the process starts: WebAutomator() draws a fresh uuid, the browser starts
Invoke(p) ==
    /\ runs[p].pc \in {"idle", "done"}
    /\ ncalls < MaxCalls
    /\ ncalls' = ncalls + 1
    /\ \E t \in {None} \cup 1..ncalls :
          runs' = [runs EXCEPT ![p] = [pc |-> IF t = None THEN "ready" ELSE "check",
                                       given |-> t, sid |-> ncalls + 1]]
    /\ UNCHANGED <<files, web, server, others>>

\* load_session: os.path.exists, then open(state_path, "r")
OpenState(p) ==
    /\ runs[p].pc = "check"
    /\ runs' = [runs EXCEPT ![p].pc = IF files[runs[p].given] = NoFile
                                      THEN "done" ELSE "reading",
                            ![p].sid = IF files[runs[p].given] = NoFile
                                       THEN @ ELSE runs[p].given]
    /\ UNCHANGED <<files, ncalls, web, server, others>>

\* json.load done and the file closed; new context and page
FinishLoad(p) ==
    /\ runs[p].pc = "reading"
    /\ runs' = [runs EXCEPT ![p].pc = "ready"]
    /\ UNCHANGED <<files, ncalls, web, server, others>>

\* navigate: page.screenshot(path=<sid>.png) begins
Screenshot(p) ==
    /\ runs[p].pc = "ready"
    /\ runs' = [runs EXCEPT ![p].pc = "shooting"]
    /\ UNCHANGED <<files, ncalls, web, server, others>>

\* the screenshot is on disk; open(screenshot_path, "rb")
Encode(p) ==
    /\ runs[p].pc = "shooting"
    /\ runs' = [runs EXCEPT ![p].pc = "encoding"]
    /\ UNCHANGED <<files, ncalls, web, server, others>>

\* the screenshot is read; save_session: open(state_path, "w")
BeginSave(p) ==
    /\ runs[p].pc = "encoding"
    /\ runs' = [runs EXCEPT ![p].pc = "saving"]
    /\ UNCHANGED <<files, ncalls, web, server, others>>

\* json.dump done and the file closed; the result is printed, the browser closed
EndSave(p) ==
    /\ runs[p].pc = "saving"
    /\ \E S \in StorageStates : files' = [files EXCEPT ![runs[p].sid] = json_dump(S)]
    /\ runs' = [runs EXCEPT ![p].pc = "done"]
    /\ UNCHANGED <<ncalls, web, server, others>>

NextPar ==
    \/ \E p \in Scripts : Invoke(p)
    \/ \E p \in Scripts : OpenState(p)
    \/ \E p \in Scripts : FinishLoad(p)
    \/ \E p \in Scripts : Screenshot(p)
    \/ \E p \in Scripts : Encode(p)
    \/ \E p \in Scripts : BeginSave(p)
    \/ \E p \in Scripts : EndSave(p)

\* script processes started at any time by whoever calls the script
SpecPar == Init /\ [][NextPar]_vars

\* ------------------------------------------------- llama_server.py calls
\* how a start can go: each way for it to end
StartEnvs ==
    {[QuietServer EXCEPT !.exe = FALSE], [QuietServer EXCEPT !.model = FALSE],
     [QuietServer EXCEPT !.exe = FALSE, !.model = FALSE],
     [QuietServer EXCEPT !.spawn = "raise"], QuietServer,
     [QuietServer EXCEPT !.boot = "listen"]}
    \cup {[QuietServer EXCEPT !.boot = "exit", !.stderr = e] : e \in {"", "bind failed"}}

Called(op, host, W) ==
    [NoCall EXCEPT !.op = op, !.host = host, !.did = W.did, !.sigs = W.sigs,
                   !.skipped = W.skipped, !.pre = procs,
                   !.prev = IF slast.op = op THEN Brief(slast) ELSE NoBrief]

ServerCommit(W, rec) ==
    /\ ncalls < MaxSteps
    /\ Len(W.procs) <= MaxProcs
    /\ ncalls' = ncalls + 1
    /\ procs' = W.procs
    /\ slast' = rec
    /\ UNCHANGED <<files, web, runs, others>>

\* the answers a call can observe: an HTTP answer only where a GET is made
Https(asked) == IF asked THEN HttpOutcomes ELSE {"200"}

StartServer ==
    \E E \in StartEnvs :
       \E r \in {start_server(ServerWorld(procs), DEFAULT_HOST, E)} :
          ServerCommit(r.w, [Called("start_server", DEFAULT_HOST, r.w)
                               EXCEPT !.proc = r.proc, !.error = r.error,
                                      !.stderr = E.stderr, !.exe = E.exe,
                                      !.model = E.model])

CheckStatus ==
    \E http \in Https(is_port_in_use(procs, DEFAULT_HOST)) :
       \E r \in {check_server_status(ServerWorld(procs), DEFAULT_HOST, http)} :
          ServerCommit(r.w, [Called("check_server_status", DEFAULT_HOST, r.w)
                               EXCEPT !.ret = r.ret, !.http = http])

EnsureRunning ==
    \E E0 \in IF is_port_in_use(procs, DEFAULT_HOST) THEN {QuietServer} ELSE StartEnvs :
    \E settle \in IF E0.exe /\ E0.model /\ E0.spawn = "ok" /\ E0.boot # "exit"
                   /\ ~is_port_in_use(procs, DEFAULT_HOST)
                  THEN {"same", "listen", "exit"} ELSE {"same"} :
    \E http \in Https(is_port_in_use(procs, DEFAULT_HOST)),
       http2 \in Https(settle = "listen" \/ (E0.boot = "listen" /\ settle = "same")) :
       LET E == [E0 EXCEPT !.settle = settle, !.http = http, !.http2 = http2]
       IN \E r \in {ensure_server_running(ServerWorld(procs), DEFAULT_HOST, E)} :
             ServerCommit(r.w, [Called("ensure_server_running", DEFAULT_HOST, r.w)
                                  EXCEPT !.ret = r.ret, !.proc = r.proc,
                                         !.http = http, !.http2 = http2])

\* how signalling a matched process can go: each way for it to end
StopOutcomes ==
    {<<"denied", "exits", "ok", TRUE>>, <<"gone", "exits", "ok", TRUE>>,
     <<"ok", "exits", "ok", TRUE>>, <<"ok", "timeout", "gone", TRUE>>,
     <<"ok", "timeout", "ok", TRUE>>, <<"ok", "timeout", "ok", FALSE>>}

\* what enumeration meets: only a process in the table can fail to answer
Accesses ==
    {a \in [1..MaxProcs -> AccessOutcomes] :
        \A i \in 1..MaxProcs :
           (i > Len(procs) \/ procs[i].st = "exited") => a[i] = "ok"}

StopEnvs(host) ==
    {[QuietServer EXCEPT !.access = a, !.term = o[1], !.grace = o[2],
                         !.kill = o[3], !.reaped = o[4]] :
        a \in Accesses,
        o \in IF \E i \in 1..Len(procs) : Matches(procs[i], host)
              THEN StopOutcomes ELSE {<<"ok", "exits", "ok", TRUE>>}}

StopServer ==
    \E host \in {DEFAULT_HOST, Wild} : \E E \in StopEnvs(host) :
       \E r \in {stop_server(ServerWorld(procs), host, E)} :
          ServerCommit(r.w, [Called("stop_server", host, r.w)
                               EXCEPT !.ok = r.ok, !.error = r.error,
                                      !.access = E.access])

\* another program binds a socket; two sockets cannot share an address
Foreign ==
    \E ip \in {DEFAULT_HOST, Wild, Elsewhere}, port \in BOOLEAN :
       /\ Len(procs) < MaxProcs
       /\ \A i \in 1..Len(procs) :
             (procs[i].st = "listening" /\ procs[i].port = port)
                => (procs[i].ip # ip /\ procs[i].ip # Wild /\ ip # Wild)
       /\ ServerCommit(ServerWorld(Append(procs, Proc("other", ip, port, "listening"))),
                       [NoCall EXCEPT !.op = "machine"])

\* a process moves on by itself: a starting server binds its port or exits,
\* a listening process exits
Moves(i) ==
    \E how \in {"listen", "exit"} :
       /\ procs[i].st # "exited"
       /\ procs[i].st = "listening" => how = "exit"
       /\ how = "listen" => ~is_port_in_use(procs, procs[i].ip)
       /\ ServerCommit([ServerWorld(procs) EXCEPT !.procs[i].st =
                            IF how = "listen" THEN "listening" ELSE "exited"],
                       [NoCall EXCEPT !.op = "machine"])

NextServer ==
    \/ StartServer
    \/ CheckStatus
    \/ EnsureRunning
    \/ StopServer
    \/ Foreign
    \/ \E i \in 1..Len(procs) : Moves(i)

InitServer == Init /\ ~autos[1].debug
\* calls of llama_server.py one after another, on a machine whose other
\* processes come and go
SpecServer == InitServer /\ [][NextServer]_vars

\* --------------------------------------- start_server calls side by side
\* each caller runs start_server(DEFAULT_HOST) once, statement by statement,
\* and the scheduler interleaves them and the processes they spawn
Quietly == UNCHANGED <<files, ncalls, web, runs, slast, job>>

\* line 110: is_port_in_use(host, port)
ProbePort(c) ==
    /\ callers[c].pc = "idle"
    /\ LET saw == is_port_in_use(procs, DEFAULT_HOST)
       IN callers' = [callers EXCEPT ![c].saw = saw,
                                     ![c].pc = IF saw THEN "refused" ELSE "probed"]
    /\ UNCHANGED procs
    /\ Quietly

\* lines 113-119: the executable and the model are found
FindExecutable(c) ==
    /\ callers[c].pc = "probed"
    /\ callers' = [callers EXCEPT ![c].pc = "executable"]
    /\ UNCHANGED procs
    /\ Quietly

FindModel(c) ==
    /\ callers[c].pc = "executable"
    /\ callers' = [callers EXCEPT ![c].pc = "model"]
    /\ UNCHANGED procs
    /\ Quietly

\* lines 132-141: subprocess.Popen
Popen(c) ==
    /\ callers[c].pc = "model"
    /\ Len(procs) < MaxProcs
    /\ procs' = Append(procs, Proc("server", DEFAULT_HOST, TRUE, "starting"))
    /\ callers' = [callers EXCEPT ![c].pc = "sleeping", ![c].pid = Len(procs) + 1]
    /\ Quietly

\* lines 144-152: after the sleep, one poll of the process
Poll(c) ==
    /\ callers[c].pc = "sleeping"
    /\ callers' = [callers EXCEPT ![c].pc = IF procs[callers[c].pid].st = "exited"
                                           THEN "failed" ELSE "started"]
    /\ UNCHANGED procs
    /\ Quietly

\* a spawned server binds its port, or exits when it cannot or will not
Boots(i) ==
    /\ procs[i].st = "starting"
    /\ \E how \in {"listen", "exit"} :
          /\ how = "listen" => ~is_port_in_use(procs, procs[i].ip)
          /\ procs' = [procs EXCEPT ![i].st =
                          IF how = "listen" THEN "listening" ELSE "exited"]
    /\ UNCHANGED callers
    /\ Quietly

NextRace ==
    \/ \E c \in Callers : ProbePort(c)
    \/ \E c \in Callers : FindExecutable(c)
    \/ \E c \in Callers : FindModel(c)
    \/ \E c \in Callers : Popen(c)
    \/ \E c \in Callers : Poll(c)
    \/ \E i \in 1..Len(procs) : Boots(i)

SpecRace == Init /\ [][NextRace]_vars

\* ------------------------------------------- structured_extraction.py calls
Lens == {0, HTML_BUDGET, HTML_BUDGET + 1}

JobCommit(rec) ==
    /\ job' = rec
    /\ UNCHANGED <<files, ncalls, web, runs, server, callers>>

\* _generate_extraction_prompt on a page of any length up to past the budget
GeneratePrompt ==
    /\ job.op = "none"
    /\ \E w \in {q \in Pages : q.url = "u1"}, c \in Schemas :
          LET g == generate_extraction_prompt(w, c, FALSE)
          IN JobCommit([NoJob EXCEPT !.op = "prompt", !.webpage = w, !.schema = c,
                                     !.raised = g.raised, !.prompt = g.prompt])

\* extract_data on any page and schema, None included, whatever the endpoint does
ExtractData ==
    /\ job.op \in {"none", "extract_data"}
    /\ \E w \in {q \in Pages : q.len \in Lens} \cup {NoPage},
          c \in Schemas \cup {NoSchema}, E \in Endpoint :
          LET r == extract_data(w, c, FALSE, E)
          IN JobCommit([NoJob EXCEPT !.op = "extract_data", !.webpage = w,
                                     !.schema = c, !.env = E, !.raised = r.raised,
                                     !.calls = r.calls, !.ret = r.ret])

NextExtract == GeneratePrompt \/ ExtractData

SpecExtract == Init /\ [][NextExtract]_vars

\* ------------------------------------------------ orchestration script runs
MaxRuns == 3
OrchSites == StartSites \cup NavSites \cup SaveSites \cup SearchSites \cup CloseSites
SchemaNames == Schemas \cup {"bogus"}
\* the storage state of the site the scripts visit
Visited == [i \in 1..MaxCookies |-> "ck"]
\* the endpoint is asked only by a run that nothing has stopped before
Asked(F) ==
    IF F \cap (StartSites \cup NavSites \cup SaveSites \cup SearchSites) = {}
    THEN Endpoint
    ELSE {[kind |-> "model", fields |-> "d1", message |-> ""]}

Ran(op, a, r, e) ==
    /\ ncalls < MaxRuns
    /\ Apply(r.w)
    /\ last' = [NoLast EXCEPT !.op = op, !.a = a, !.faults = r.w.used]
    /\ job' = [NoJob EXCEPT !.op = op, !.env = e, !.did = r.did, !.nav = r.nav,
                            !.sr = r.sr, !.ext = r.ext, !.ret = r.ret,
                            !.calls = r.calls]

\* one call of extract_from_url, on the automator it constructs
ExtractFromUrl(a) ==
    /\ res[a] = <<>>
    /\ a \notin closedOnce
    /\ \E F \in FaultSets(OrchSites \ SearchSites, Min(Budget, 1)) :
       \E schema_name \in SchemaNames, e \in Asked(F), cut \in Cuts(F) :
          LET X == [web |-> Env(F, Visited, FALSE, cut, Misses), endpoint |-> e]
          IN \E r \in {extract_from_url(World, a, schema_name, HTML_BUDGET + 1, X)} :
                Ran("extract_from_url", a, r, e)

\* one call of ProxyLite3BAutomation.search, on the automator it constructs
ProxySearch(a) ==
    /\ res[a] = <<>>
    /\ a \notin closedOnce
    /\ \E F \in FaultSets(OrchSites, Min(Budget, 1)) :
       \E outs \in UniformVectors, e \in Asked(F), cut \in Cuts(F) :
          LET X == [web |-> Env(F, Visited, FALSE, cut, outs), endpoint |-> e]
          IN \E st \in {start_browser(World, a, X.web)} :
             \E nav \in {navigate(st.w, a, X.web)} :
             \E sr \in {search(nav.w, a, X.web)} :
             \E r \in {proxy_search(st, nav, sr, a, X)} :
                Ran("proxy_search", a, r, e)

NextOrch ==
    \/ \E a \in Autos : Construct(a)
    \/ \E a \in Autos : ExtractFromUrl(a)
    \/ \E a \in Autos : ProxySearch(a)

\* calls of the orchestration scripts, one after another
SpecOrch == Init /\ [][NextOrch]_vars

\* ------------------------------------------------------------- claims
A0 == last.a
Fields == {"context", "browser", "playwright"}
SiteOf(f) == CASE f = "context" -> "close:context"
               [] f = "browser" -> "close:browser"
               [] OTHER -> "close:driver"
Held(a) == {r \in 1..Len(res[a]) : res[a][r].kind # "page"}

\* C1: when a run of the script is over, every driver, browser and context
\* it acquired has been released, on every exit path
C1_ScopedRelease ==
    last.op = "main" => \A r \in Held(A0) : ~Alive(res[A0], r)

\* C2: close() in any state releases each resource the automator holds even
\* when releasing another one fails, issues no release on a resource that is
\* already released, and fails only if a release fails
C2_CloseSafe ==
    last.op = "close" =>
       /\ ~last.again
       /\ (last.faults = {} => ~last.raised)
       /\ \A f \in Fields :
             (autos[A0][f] # None /\ SiteOf(f) \notin last.faults)
                => ~res[A0][autos[A0][f]].open

\* C3: the script exits with code 0 exactly when the result it reports is a
\* success
C3_ExitCode ==
    last.op = "main" => (last.exit = 0 <=> last.ret.success)

\* C4: a run of the script writes exactly one JSON document to standard
\* output and nothing else
C4_OneDocument ==
    last.op = "main" => last.out = <<"json">>

\* C5: navigate never raises; it returns a success record with all its keys
\* or a failure record with the error and the url, and loads the page at
\* most once
C5_NavigateTotal ==
    last.op = "navigate" =>
       /\ ~last.raised
       /\ last.gotos <= 1
       /\ IF last.ret.success
          THEN last.ret.keys = SuccessKeys /\ last.ret.session_id # None
          ELSE last.ret.keys = {"success", "error", "url"} /\ last.ret.error # ""

C5_Witness ==
    /\ last.op = "navigate"
    /\ last.faults = {"save:dump"}
    /\ ~last.ret.success
    /\ last.gotos = 1

\* C6: search probes the selectors in their declared order and stops at the
\* first one that yields an element, skipping those whose probe raises; when
\* none yields an element it returns a failure record and touches nothing
C6_FirstMatch ==
    last.op = "search" =>
       LET o == last.outcomes
           hits == {i \in 1..Len(o) : o[i] = "elem"}
           upto == IF hits = {} THEN Len(o)
                   ELSE CHOOSE i \in hits : \A j \in hits : i <= j
       IN /\ last.probed = [i \in 1..upto |-> i]
          /\ IF hits = {}
             THEN /\ last.chosen = 0
                  /\ last.ret.success = FALSE
                  /\ last.ret.keys = {"success", "error"}
                  /\ last.did = <<>>
                  /\ files = last.pre.files
                  /\ shots = last.pre.shots
                  /\ res[A0] = last.pre.res
             ELSE /\ last.chosen = upto
                  /\ last.did # <<>>
                  /\ last.did[1] = "click"

C6_Witness ==
    /\ last.op = "search"
    /\ last.outcomes[1] = "raise"
    /\ last.outcomes[3] = "elem"
    /\ last.chosen = 3
    /\ last.ret.success

\* C7: the lifecycle is uninitialized, started, closed: navigate and search
\* succeed only on a started automator that has not been closed, and after
\* close() no operation succeeds or acquires browser resources
C7_Lifecycle ==
    /\ (last.op \in {"navigate", "search"} /\ last.ret.success)
          => (last.pre.auto.page # None /\ ~last.pre.closed)
    /\ (last.op \in {"start_browser", "save_session", "load_session",
                     "navigate", "search"} /\ last.pre.closed)
          => (~last.ret.success /\ Len(res[A0]) = Len(last.pre.res))

\* C8: load_session(token) that returns True has closed the previous context
\* and holds a new context and page made from the stored state, under the
\* given token; without a state file it returns False and changes nothing
C8_LoadReplaces ==
    (last.op = "load_session" /\ ~last.raised) =>
       LET A == autos[A0]
           P == last.pre
       IN IF last.ret.success
          THEN /\ P.files[last.token] # NoFile
               /\ P.auto.context # None => ~res[A0][P.auto.context].open
               /\ A.context > Len(P.res)
               /\ A.page > Len(P.res)
               /\ A.context # P.auto.context
               /\ Alive(res[A0], A.page)
               /\ res[A0][A.page].parent = A.context
               /\ json_dump(res[A0][A.context].state) = files[last.token]
               /\ A.session_id = last.token
          ELSE /\ P.files[last.token] = NoFile
               /\ A = P.auto
               /\ res[A0] = P.res

C8_Witness ==
    /\ last.op = "load_session"
    /\ last.ret.success
    /\ last.pre.auto.context # None
    /\ last.pre.res[last.pre.auto.context].open
    /\ last.pre.auto.session_id # last.token

C8_WitnessAbsent ==
    /\ last.op = "load_session"
    /\ ~last.raised
    /\ ~last.ret.success
    /\ last.pre.auto.context # None

\* C9: what save_session stored under a token is what the context holds
\* after load_session of that token has returned True
C9_RoundTrip ==
    (last.op = "load_session" /\ last.ret.success) =>
       res[A0][autos[A0].context].state = saved[last.token].state

C9_Witness ==
    /\ last.op = "load_session"
    /\ last.ret.success
    /\ saved[last.token].by # A0
    /\ Len(saved[last.token].state) = MaxCookies
    /\ Len(last.pre.res) = 4

\* C10: after a navigate or search that returns success, the state file of
\* the session holds the context's storage state, and the record names the
\* automator's session token
C10_SavedOnSuccess ==
    (last.op \in {"navigate", "search"} /\ last.ret.success) =>
       LET A == autos[A0]
       IN /\ files[A.session_id] # NoFile
          /\ files[A.session_id] = json_dump(res[A0][A.context].state)
          /\ last.ret.session_id = A.session_id

C10_Witness ==
    /\ last.op = "search"
    /\ last.ret.success
    /\ last.pre.files[autos[A0].session_id] # NoFile
    /\ last.pre.files[autos[A0].session_id] # files[autos[A0].session_id]

\* C11: a session token has the one state file <token>.json: no operation
\* removes a state file, and an operation writes no state file other than
\* the one of the automator's own token, which a later save overwrites
C11_OneFilePerToken ==
    last.op \notin {"init", "construct"} =>
       LET changed == {t \in Tokens : files[t] # last.pre.files[t]}
       IN /\ \A t \in Tokens : last.pre.files[t] # NoFile => files[t] # NoFile
          /\ changed \subseteq {autos[A0].session_id}
          /\ \A t \in changed : last.op \in {"save_session", "navigate", "search"}

C11_Witness ==
    /\ last.op = "navigate"
    /\ last.ret.success
    /\ last.pre.files[autos[A0].session_id] # NoFile
    /\ files[autos[A0].session_id] # last.pre.files[autos[A0].session_id]
    /\ Cardinality({t \in Tokens : files[t] # NoFile}) = 1

\* C12: no two script processes have the state file or a screenshot file of
\* the same session token open at the same time
C12_NoConcurrentAccess ==
    \A p, q \in Scripts :
       (p # q /\ Accessing(runs[p]) # <<>>) => Accessing(runs[p]) # Accessing(runs[q])

Has(did, what) == \E i \in 1..Len(did) : did[i] = what
Count(did, what) == Cardinality({i \in 1..Len(did) : did[i] = what})
Spawned == Len(procs) > Len(slast.pre)

\* C13: start_server on a port that already accepts connections returns no
\* process and the port-in-use error, having only probed the port: it looks
\* for no executable or model and spawns nothing
C13_PortBusy ==
    (slast.op = "start_server" /\ is_port_in_use(slast.pre, slast.host)) =>
       /\ slast.proc = None
       /\ slast.error = <<"port in use", "port">>
       /\ slast.did = <<"probe">>
       /\ procs = slast.pre

C13_Witness ==
    /\ slast.op = "start_server"
    /\ is_port_in_use(slast.pre, slast.host)
    /\ \E i \in 1..Len(procs) : procs[i].ip = Wild /\ procs[i].st = "listening"
    /\ slast.proc = None

\* C14: once start_server has spawned the process it sleeps, polls once, and
\* returns the process with no error if it is alive, or no process and the
\* failure carrying its error stream if it has exited; a spawn that raises is
\* returned as an error
C14_PollOnce ==
    (slast.op = "start_server" /\ Has(slast.did, "spawn")) =>
       IF Spawned
       THEN LET pid == Len(slast.pre) + 1
            IN /\ slast.did = <<"probe", "find executable", "find model", "spawn",
                               "sleep 2", "poll">>
               /\ IF procs[pid].st = "exited"
                  THEN /\ slast.proc = None
                       /\ slast.error = <<"failed to start", slast.stderr>>
                  ELSE /\ slast.proc = pid
                       /\ slast.error = <<>>
       ELSE /\ slast.proc = None
            /\ slast.error = <<"error starting", "exception">>
            /\ procs = slast.pre

C14_Witness ==
    /\ slast.op = "start_server"
    /\ Spawned
    /\ procs[Len(procs)].st = "exited"
    /\ slast.error = <<"failed to start", "bind failed">>

\* C15: two ensure_server_running calls in a row on a port that accepts
\* connections spawn nothing, both answer running, and answer alike when the
\* models endpoint answers alike
C15_EnsureIdempotent ==
    (slast.op = "ensure_server_running" /\ slast.prev.op = "ensure_server_running"
        /\ slast.prev.inuse) =>
       /\ ~Has(slast.prev.did, "spawn")
       /\ ~Has(slast.did, "spawn")
       /\ procs = slast.pre
       /\ slast.prev.ret.running
       /\ slast.ret.running
       /\ slast.http = slast.prev.http => slast.ret = slast.prev.ret

C15_Witness ==
    /\ slast.op = "ensure_server_running"
    /\ slast.prev.op = "ensure_server_running"
    /\ slast.prev.inuse
    /\ slast.ret = slast.prev.ret
    /\ slast.ret.running

\* C16: ensure_server_running checks first; it starts a server only if that
\* check says not running, and once; a start error is returned as
\* running:false with that error and nothing more is checked; otherwise it
\* sleeps and returns what the second check answers
C16_CheckStartRecheck ==
    slast.op = "ensure_server_running" =>
       LET did == slast.did
           busy == is_port_in_use(slast.pre, slast.host)
       IN /\ did[1] = "connect"
          /\ Count(did, "probe") = IF busy THEN 0 ELSE 1
          /\ busy => (Count(did, "connect") = 1 /\ slast.ret.running)
          /\ (~busy /\ slast.proc = None) =>
                /\ ~slast.ret.running
                /\ slast.ret.message[1] \in {"port in use", "no executable", "no model",
                                             "error starting", "failed to start"}
                /\ Count(did, "connect") = 1
                /\ ~Has(did, "sleep 5")
          /\ slast.proc # None =>
                /\ Count(did, "connect") = 2
                /\ \E k \in 1..Len(did) :
                      /\ did[k] = "sleep 5"
                      /\ did[k + 1] = "connect"
                      /\ \A j \in 1..k : did[j] # "sleep 5" \/ j = k
                /\ slast.ret.running = is_port_in_use(procs, slast.host)

C16_Witness ==
    /\ slast.op = "ensure_server_running"
    /\ slast.proc = None
    /\ slast.ret.message = <<"failed to start", "bind failed">>

\* C17: stop_server with no socket of any process on the host and port
\* returns the not-found failure and signals nothing, and every process that
\* vanished, is a zombie or denies access is skipped
C17_NotFound ==
    (slast.op = "stop_server"
        /\ ~\E i \in 1..Len(slast.pre) :
              /\ slast.pre[i].st = "listening"
              /\ slast.pre[i].port
              /\ (slast.pre[i].ip \in {slast.host, Wild} \/ slast.host = Wild)) =>
       /\ ~slast.ok
       /\ slast.error = <<"no server", slast.host, "port">>
       /\ slast.sigs = <<>>
       /\ slast.skipped = {i \in 1..Len(slast.pre) :
                             slast.pre[i].st # "exited" /\ slast.access[i] # "ok"}

C17_Witness ==
    /\ slast.op = "stop_server"
    /\ ~slast.ok
    /\ Len(slast.pre) = 2
    /\ \A i \in 1..2 : slast.pre[i].st = "listening" /\ ~slast.pre[i].port
    /\ slast.access = <<"zombie", "denied">>
    /\ slast.skipped = {1, 2}

\* C18: stop_server on a port that accepts connections on the host reports
\* success, having sent the termination signal first and the kill signal only
\* after the wait timed out, and the process it matched has exited
C18_GracefulThenForced ==
    (slast.op = "stop_server" /\ is_port_in_use(slast.pre, slast.host)) =>
       /\ slast.ok
       /\ Len(slast.sigs) \in {1, 2}
       /\ slast.sigs[1][2] = "term"
       /\ Len(slast.sigs) = 2 => slast.sigs[2] = <<slast.sigs[1][1], "kill">>
       /\ Has(slast.did, "kill") => Has(slast.did, "wait 5")
       /\ procs[slast.sigs[1][1]].st = "exited"

\* C19: check_server_status answers running exactly when the connect probe
\* succeeds; with a 200 answer that parses it lists the models and the url,
\* with any other answer it says it could not confirm
C19_StatusProbe ==
    slast.op = "check_server_status" =>
       /\ slast.ret.running = is_port_in_use(slast.pre, slast.host)
       /\ slast.ret.running =>
             IF slast.http = "200"
             THEN /\ slast.ret.keys = {"running", "message", "models", "url"}
                  /\ slast.ret.message = <<"running">>
             ELSE /\ slast.ret.keys = {"running", "message"}
                  /\ slast.ret.message[1] = "could not confirm"
       /\ ~slast.ret.running => slast.ret.keys = {"running", "message"}
       /\ procs = slast.pre

C19_Witness ==
    /\ slast.op = "check_server_status"
    /\ slast.ret.running
    /\ slast.http = "unparseable"

\* C20: when ensure_server_running has spawned a server and got it back from
\* start_server, it answers by the port alone and leaves the process alone:
\* a server that is alive but not yet listening is reported not running
C20_SlowStart ==
    (slast.op = "ensure_server_running" /\ slast.proc # None) =>
       /\ slast.ret.running = is_port_in_use(procs, slast.host)
       /\ slast.sigs = <<>>
       /\ procs[slast.proc].st = "starting" => ~slast.ret.running

C20_Witness ==
    /\ slast.op = "ensure_server_running"
    /\ slast.proc # None
    /\ procs[slast.proc].st = "starting"
    /\ ~slast.ret.running
    /\ Has(slast.did, "sleep 2")
    /\ Has(slast.did, "sleep 5")

\* C21: a page HTML longer than the budget of 10000 characters goes into the
\* prompt as exactly its first 10000 characters followed by the marker "...";
\* an HTML of at most 10000 characters (exactly 10000 and the empty string
\* included) goes in unmodified and without the marker.
C21_Truncation ==
    job.op = "prompt" /\ ~job.raised =>
        LET n == job.webpage.len
            h == job.prompt.html
        IN IF n > 10000
           THEN h.part = [lo |-> 1, hi |-> 10000] /\ h.marker
           ELSE h.part = [lo |-> 1, hi |-> n] /\ ~h.marker

C21_Witness ==
    /\ job.op = "prompt"
    /\ job.webpage.len = HTML_BUDGET + 1
    /\ job.prompt.html.marker
    /\ job.prompt.html.part.hi = HTML_BUDGET

\* C22: extract_data never propagates an exception and asks the model
\* endpoint at most once; it returns either success true with the endpoint's
\* structured answer as data, the schema name and the url, or success false
\* with an error message and a traceback and without any data, whether the
\* prompt building, the endpoint call or the conversion of the result failed.
C22_ExtractTotal ==
    job.op = "extract_data" =>
        /\ ~job.raised
        /\ job.calls <= 1
        /\ job.ret.success =>
              /\ job.env.kind = "model"
              /\ job.ret.keys = {"success", "data", "model", "url"}
              /\ job.ret.data = job.env.fields
              /\ job.ret.model = job.schema
              /\ job.ret.url = job.webpage.url
        /\ ~job.ret.success =>
              /\ {"success", "error", "traceback"} \subseteq job.ret.keys
              /\ "data" \notin job.ret.keys
              /\ job.ret.data = NoDict
              /\ job.ret.error # ""
        /\ job.ret.success <=>
              job.webpage # NoPage /\ job.schema # NoSchema /\ job.env.kind = "model"

C22_Witness ==
    /\ job.op = "extract_data"
    /\ job.env.kind = "raise"
    /\ job.calls = 1
    /\ ~job.ret.success
    /\ job.ret.error = job.env.message

\* the keys the scripts' records are known to carry; a key that names the
\* failed stage would be another one
KnownKeys == {"success", "error", "traceback", "url", "query", "title", "schema",
              "timestamp", "screenshot", "data", "results"}
Annotated(ret) == ret.keys \ KnownKeys # {}
NavFailed == job.nav.keys # {} /\ ~job.nav.success
SearchFailed == job.sr.keys # {} /\ ~job.sr.success
ExtractFailed ==
    \/ job.ext.keys # {} /\ ~job.ext.success
    \/ job.op = "proxy_search" /\ job.calls = 1 /\ job.env.kind # "model"

\* C23: in extract_from_url and ProxyLite3BAutomation.search the failure of
\* a stage short-circuits: no later stage runs, and the final record carries
\* that stage's error message verbatim together with an annotation of which
\* stage failed.
C23_ShortCircuit ==
    job.op \in {"extract_from_url", "proxy_search"} =>
        /\ NavFailed =>
              /\ job.did = <<"navigate">> /\ job.calls = 0
              /\ ~job.ret.success /\ job.ret.error = job.nav.error
              /\ Annotated(job.ret)
        /\ SearchFailed =>
              /\ job.did = <<"navigate", "search">> /\ job.calls = 0
              /\ ~job.ret.success /\ job.ret.error = job.sr.error
              /\ Annotated(job.ret)
        /\ ExtractFailed =>
              /\ ~job.ret.success
              /\ job.ret.error = IF job.op = "extract_from_url" THEN job.ext.error
                                 ELSE IF job.env.kind = "raise" THEN job.env.message
                                 ELSE "attribute"
              /\ Annotated(job.ret)

\* C24: no public operation of the components (start_browser, load_session,
\* save_session, navigate, search and close of WebAutomator, extract_data,
\* and the llama_server.py functions) propagates an exception to its
\* caller: every failure is caught at the operation's boundary and returned
\* as a failure value.
PublicOps == {"start_browser", "load_session", "save_session", "navigate",
              "search", "close"}
C24_NoPropagation ==
    /\ last.op \in PublicOps => ~last.raised
    /\ job.op = "extract_data" => ~job.raised

\* a run of the script given --session with a token that has no state file
MissingSession ==
    /\ last.op = "main"
    /\ last.args.session # None
    /\ last.pre.files[last.args.session] = NoFile

\* C25: web_automation.py given --session with a token whose state file
\* does not exist reports the failure record "Could not load session", does
\* no navigate or search, writes no state file and no screenshot, and still
\* releases the browser resources before it exits (the last where none of
\* the browser's own start and close calls fails).
C25_MissingSession ==
    MissingSession =>
        /\ files = last.pre.files
        /\ shots = last.pre.shots
        /\ \A r \in 1..Len(res[A0]) : ~res[A0][r].loaded
        /\ ~last.ret.success
        /\ last.faults \cap StartSites = {} => Len(last.out) >= 1
        /\ last.faults = {} =>
              /\ last.ret = [Failure EXCEPT !.error = "session"]
              /\ last.out = <<"json">>
              /\ Len(res[A0]) > 0
              /\ \A r \in 1..Len(res[A0]) : ~Alive(res[A0], r)

C25_Witness ==
    /\ MissingSession
    /\ last.args.action = "navigate" /\ last.args.url
    /\ last.ret.error = "session"
    /\ Len(res[A0]) > 0
    /\ \A r \in 1..Len(res[A0]) : ~Alive(res[A0], r)

\* C26: a navigate or search call that returns a failure record leaves the
\* session's state file unchanged: the file is written only as the last
\* step, so a failure neither creates nor alters it.
C26_FailureKeepsState ==
    (last.op \in {"navigate", "search"} /\ ~last.ret.success) =>
        files = last.pre.files

\* C27: start_server spawns a process only if the port is free, the server
\* executable is found and the model file is found, checked in that order;
\* when one of them fails it returns (None, error) for the first failing
\* check in that order and spawns nothing; whenever it returns a process the
\* error is None, and whenever it returns an error the process is None.
C27_Preconditions ==
    slast.op = "start_server" =>
       LET busy == is_port_in_use(slast.pre, slast.host)
       IN /\ Has(slast.did, "spawn") => ~busy /\ slast.exe /\ slast.model
          /\ busy =>
                slast.error = <<"port in use", "port">> /\ slast.did = <<"probe">>
          /\ ~busy /\ ~slast.exe =>
                /\ slast.error = <<"no executable">>
                /\ slast.did = <<"probe", "find executable">>
          /\ ~busy /\ slast.exe /\ ~slast.model =>
                /\ slast.error = <<"no model", "model_name">>
                /\ slast.did = <<"probe", "find executable", "find model">>
          /\ busy \/ ~slast.exe \/ ~slast.model =>
                slast.proc = None /\ procs = slast.pre
          /\ slast.proc # None => slast.error = <<>>
          /\ slast.error # <<>> => slast.proc = None
          /\ slast.proc = None <=> slast.error # <<>>

C27_Witness ==
    /\ slast.op = "start_server"
    /\ ~is_port_in_use(slast.pre, slast.host)
    /\ ~slast.exe /\ ~slast.model
    /\ slast.error = <<"no executable">>
    /\ procs = slast.pre

\* C28: however two concurrent start_server calls for the same free host
\* and port interleave, at most one of them spawns a server process.
C28_OneSpawn ==
    Cardinality({i \in 1..Len(procs) : procs[i].kind = "server"}) <= 1

====
